---------------------------- MODULE Spec2Model ----------------------------
(***************************************************************************)
(* A model of the siddecfp element (src/src/gstsiddecfp.cpp): the input    *)
(* accumulator (gst_siddecfp_chain), the end-of-input handler              *)
(* (gst_siddecfp_sink_event / start_play_tune / siddecfp_negotiate), the   *)
(* production task (play_loop), the unit conversion                        *)
(* (gst_siddecfp_src_convert), the position query, the property accessors  *)
(* and the teardown (gst_siddecfp_finalize).                               *)
(*                                                                         *)
(* Threads: chain and sink_event run on the upstream streaming thread,     *)
(* play_loop on the source pad's task, set_property and queries on         *)
(* application threads.  The handlers of the streaming and application     *)
(* threads are single actions; play_loop is cut at the points where it     *)
(* reads the fields other threads write (blocksize, total_bytes, config).  *)
(***************************************************************************)
EXTENDS Integers, Sequences, FiniteSets, TLC

(***************************************************************************)
(* Program constants                                                       *)
(***************************************************************************)
DEFAULT_TUNE == 0
DEFAULT_BLOCKSIZE == 8192
MIN_BLOCKSIZE == 1024
MAX_BLOCKSIZE == 65536
GST_SECOND == 1000000000
DefaultRate == 48000
DefaultChannels == 1

\* GstFlowReturn, as the element compares it (ret < GST_FLOW_UNEXPECTED)
GST_FLOW_OK == 0
GST_FLOW_NOT_LINKED == 0 - 1
GST_FLOW_WRONG_STATE == 0 - 2
GST_FLOW_UNEXPECTED == 0 - 3
GST_FLOW_NOT_NEGOTIATED == 0 - 4
GST_FLOW_ERROR == 0 - 5

(***************************************************************************)
(* Bounds of the model                                                     *)
(***************************************************************************)
\* capacity of tune_buffer, scaled down from the library's value
SIDTUNE_MAX_FILELEN == 3
\* longest input chunk
MaxChunk == 2
\* number of chain calls, sink events, property accesses, loop iterations
MaxChain == 3
MaxEvents == 2
MaxSet == 2
MaxIter == 3

\* The environments explored, each with one kind of input in plenty and the
\* others scarce: many chunks; a long production run; repeated sink events;
\* property changes during production.  A behaviour draws one of them in
\* Init and keeps it; the handlers' guards count the inputs against it.
Budgets ==
  { [chain |-> MaxChain, chunk |-> MaxChunk, event |-> 1, set |-> 0, iter |-> 1],
    [chain |-> 1, chunk |-> 1, event |-> 1, set |-> 0, iter |-> MaxIter],
    [chain |-> 1, chunk |-> 1, event |-> MaxEvents, set |-> 0, iter |-> 2],
    [chain |-> 1, chunk |-> 1, event |-> 1, set |-> MaxSet, iter |-> 2] }

Bytes == 0 .. 1
\* the byte a valid program starts with (stands for the PSID/RSID header)
MagicByte == 1

Chunks(maxlen) == UNION {[1 .. n -> Bytes] : n \in 0 .. maxlen}

\* a field a caps structure does not carry
Unspecified == 0
\* the structures downstream may advertise, already fixated
Structures ==
  { [rate |-> 44100, channels |-> 2],
    [rate |-> 8000, channels |-> 1],
    [rate |-> Unspecified, channels |-> 2] }

\* the caps downstream may allow: an ordered list of structures, possibly empty
CapsLists == {<<>>} \cup {<<s>> : s \in Structures}
               \cup {<<s, [rate |-> 8000, channels |-> 1]>> : s \in Structures}

\* the block sizes set: the smallest, an odd one, the default
BlockSizes == {MIN_BLOCKSIZE, MIN_BLOCKSIZE + 1, DEFAULT_BLOCKSIZE}
TuneNumbers == 0 .. 1
FlowReturns == {GST_FLOW_OK, GST_FLOW_NOT_LINKED, GST_FLOW_WRONG_STATE,
                GST_FLOW_UNEXPECTED, GST_FLOW_ERROR}
Formats == {"BYTES", "DEFAULT", "TIME", "PERCENT"}

(***************************************************************************)
(* Pure functions                                                          *)
(***************************************************************************)
RECURSIVE GCD(_, _)
GCD(m, n) == IF n = 0 THEN m ELSE GCD(n, m % n)

\* the largest step for which step * c stays within the checker's integers
MulDivStep(c) ==
  IF c <= 65535 THEN 32768
  ELSE IF c <= 524287 THEN 4096
  ELSE IF c <= 8388607 THEN 256
  ELSE IF c <= 134217727 THEN 16
  ELSE 2

RECURSIVE MulDivLong(_, _, _)
\* <<q, r>> with a * b = q * c + r and 0 <= r < c, by long multiplication
\* over the digits of b, so that a * b (which exceeds the checker's
\* integers) is never formed
MulDivLong(a, b, c) ==
  IF b = 0 THEN <<0, 0>>
  ELSE LET k == MulDivStep(c)
           h == MulDivLong(a, b \div k, c)
           high == k * h[2]
           low == (b % k) * (a % c)
           r3 == (high % c) + (low % c)
           q3 == k * h[1] + (high \div c) + (low \div c) + (b % k) * (a \div c)
       IN  <<q3 + (r3 \div c), r3 % c>>

\* the same after b / c is reduced to lowest terms
MulDivQR(a, b, c) ==
  LET g == GCD(b, c)
      h == MulDivLong(a, b \div g, c \div g)
  IN  <<h[1], g * h[2]>>

\* the scaling rounded up instead
gst_util_uint64_scale_int_RoundsUp(val, num, denom) ==
  MulDivQR(val, num, denom)[1] + (IF MulDivQR(val, num, denom)[2] > 0 THEN 1 ELSE 0)

\* gst_util_uint64_scale_int: val * num / denom, rounded down, 64-bit exact
gst_util_uint64_scale_int(val, num, denom) == MulDivQR(val, num, denom)[1]

\* the sample frame taken for two bytes whatever the channel count
bytes_per_sample_Mono(cfg) == 2

\* bytes per sample frame, from the engine configuration
bytes_per_sample(cfg) == 2 * (IF cfg.playback = "stereo" THEN 2 ELSE 1)

\* the conversion between bytes, sample frames (DEFAULT) and time
gst_siddecfp_src_convert(cfg, src_format, src_value, dest_format) ==
  IF src_format = dest_format THEN [res |-> TRUE, value |-> src_value]
  ELSE
    CASE src_format = "BYTES" /\ dest_format = "DEFAULT" ->
           [res |-> TRUE, value |-> src_value \div bytes_per_sample(cfg)]
      [] src_format = "BYTES" /\ dest_format = "TIME" ->
           IF bytes_per_sample(cfg) * cfg.frequency = 0
             THEN [res |-> FALSE, value |-> 0]
             ELSE [res |-> TRUE,
                   value |-> gst_util_uint64_scale_int(src_value, GST_SECOND,
                               bytes_per_sample(cfg) * cfg.frequency)]
      [] src_format = "DEFAULT" /\ dest_format = "BYTES" ->
           [res |-> TRUE, value |-> src_value * bytes_per_sample(cfg)]
      [] src_format = "DEFAULT" /\ dest_format = "TIME" ->
           IF cfg.frequency = 0
             THEN [res |-> FALSE, value |-> 0]
             ELSE [res |-> TRUE,
                   value |-> gst_util_uint64_scale_int(src_value, GST_SECOND, cfg.frequency)]
      [] src_format = "TIME" /\ dest_format = "BYTES" ->
           [res |-> TRUE,
            value |-> gst_util_uint64_scale_int(src_value,
                        bytes_per_sample(cfg) * cfg.frequency, GST_SECOND)]
      [] src_format = "TIME" /\ dest_format = "DEFAULT" ->
           [res |-> TRUE,
            value |-> gst_util_uint64_scale_int(src_value, cfg.frequency, GST_SECOND)]
      [] OTHER -> [res |-> FALSE, value |-> 0]

\* SidTune::read followed by getStatus: the program's validity check
getStatus(buf) == Len(buf) >= 1 /\ buf[1] = MagicByte

(***************************************************************************)
(* State                                                                   *)
(***************************************************************************)
VARIABLES
  tune_buffer,   \* the bytes written into tune_buffer so far
  tune_len,      \* siddecfp->tune_len
  tune_number,   \* siddecfp->tune_number
  total_bytes,   \* siddecfp->total_bytes
  blocksize,     \* siddecfp->blocksize
  config,        \* siddecfp->config: frequency and playback
  srccaps,       \* the caps set on the source pad: <<>> or one structure
  tune,          \* siddecfp->tune: "NULL", "invalid" or "valid"
  rs,            \* siddecfp->rs: "NULL" or "created"
  engine_tune,   \* what the engine has loaded: "NULL" or "loaded"
  task,          \* the source pad's task: "none", "started" or "paused"
  pc,            \* where play_loop stands
  loc,           \* play_loop's locals, the buffer it is filling and what it
                 \* asked of the engine
  srcpad_out,    \* everything pushed on the source pad, in order
  last,          \* the last handler that ran: its input, result and calls
  chunks,        \* the chunks chain accepted, in call order
  overflowed,    \* a chain call has failed with overflow
  count,         \* how many times each environment input was given
  budget,        \* how many times each may be given in this behaviour
  heap           \* the objects created and not yet released, by kind, and
                 \* whether the element has been finalized

vars == <<tune_buffer, tune_len, tune_number, total_bytes, blocksize, config, srccaps,
          tune, rs, engine_tune, task, pc, loc, srcpad_out, last, chunks, overflowed,
          count, budget, heap>>

Call(name, n) == [call |-> name, arg |-> n]
Last(op, arg, ret, calls) ==
  [op |-> op, arg |-> arg, ret |-> ret, calls |-> calls]
Event(type) ==
  [type |-> type, timestamp |-> 0, duration |-> 0, offset |-> 0, offset_end |-> 0,
   size |-> 0, ret |-> 0]
NoLocals ==
  [out_size |-> 0, requested |-> 0, played |-> 0, offset |-> 0, time |-> 0,
   offset_end |-> 0, duration |-> 0]

\* what gst_siddecfp_init allocates: the engine and tune_buffer
NewHeap == [engine |-> 1, tune_buffer |-> 1, tune |-> 0, rs |-> 0, finalized |-> FALSE]

\* gst_siddecfp_init
Init ==
  /\ tune_buffer = <<>>
  /\ tune_len = 0
  /\ tune_number = 0
  /\ total_bytes = 0
  /\ blocksize = DEFAULT_BLOCKSIZE
  /\ config = [frequency |-> 48000, playback |-> "stereo"]
  /\ srccaps = <<>>
  /\ tune = "NULL"
  /\ rs = "NULL"
  /\ engine_tune = "NULL"
  /\ task = "none"
  /\ pc = "alloc"
  /\ loc = NoLocals
  /\ srcpad_out = <<>>
  /\ last = Last("init", 0, 0, <<>>)
  /\ chunks = <<>>
  /\ overflowed = FALSE
  /\ count = [chain |-> 0, event |-> 0, set |-> 0, iter |-> 0]
  /\ budget \in Budgets
  /\ heap = NewHeap

(***************************************************************************)
(* Input accumulator                                                       *)
(***************************************************************************)
\* the refusal test off by one: a chunk one byte too long is accepted
ChainOverflows_OffByOne(len, size) == len + size > SIDTUNE_MAX_FILELEN + 1

\* the refusal test looking at the accumulated length alone
ChainOverflows_IgnoresSize(len, size) == len > SIDTUNE_MAX_FILELEN

\* whether a chunk of this size is refused (line 488)
ChainOverflows(len, size) == len + size > SIDTUNE_MAX_FILELEN

\* the copy placing the chunk at the start of the buffer
ChainCopy_AtStart(buf, len, data) == data \o SubSeq(buf, 1, len)

\* memcpy (tune_buffer + tune_len, data, size)
ChainCopy(buf, len, data) == SubSeq(buf, 1, len) \o data

gst_siddecfp_chain(data) ==
  /\ count.chain < budget.chain
  /\ count' = [count EXCEPT !.chain = @ + 1]
  /\ IF ChainOverflows(tune_len, Len(data))
       THEN /\ last' = Last("chain", Len(data), GST_FLOW_ERROR,
                            <<Call("error.STREAM_DECODE", 0)>>)
            /\ overflowed' = TRUE
            /\ UNCHANGED <<tune_buffer, tune_len, chunks>>
       ELSE /\ tune_buffer' = ChainCopy(tune_buffer, tune_len, data)
            /\ tune_len' = tune_len + Len(data)
            /\ chunks' = Append(chunks, data)
            /\ last' = Last("chain", Len(data), GST_FLOW_OK, <<>>)
            /\ UNCHANGED overflowed
  /\ UNCHANGED <<tune_number, total_bytes, blocksize, config, srccaps, tune, rs,
                 engine_tune, task, pc, loc, srcpad_out, budget, heap>>

(***************************************************************************)
(* Format negotiation                                                      *)
(***************************************************************************)
\* gst_pad_get_allowed_caps on a pad with fixed caps: NULL without a peer;
\* otherwise the peer's caps intersected with the pad's own caps, which are
\* the template until caps are set and the set caps from then on
AllowedCaps(caps) ==
  {[null |-> TRUE, list |-> <<>>]} \cup
  {[null |-> FALSE, list |-> l] :
     l \in IF caps = <<>> THEN CapsLists ELSE {<<>>, caps}}

\* gst_structure_get_int on the first structure: the value is left alone
\* when there is no structure or the field is missing
GetInt(list, field, default) ==
  IF Len(list) >= 1 /\ list[1][field] # Unspecified THEN list[1][field] ELSE default

\* the negotiation going on without any caps to read
siddecfp_negotiate_NeverFails(cfg, caps, allowed) ==
  LET rate == GetInt(allowed.list, "rate", DefaultRate)
      channels == GetInt(allowed.list, "channels", DefaultChannels)
  IN  [res |-> TRUE,
       config |-> [frequency |-> rate,
                   playback |-> IF channels = 2 THEN "stereo" ELSE "mono"],
       caps |-> <<[rate |-> rate, channels |-> channels]>>]

\* siddecfp_negotiate: res, the new configuration and the new pad caps
siddecfp_negotiate(cfg, caps, allowed) ==
  IF allowed.null
    THEN [res |-> FALSE, config |-> cfg, caps |-> caps]
    ELSE LET rate == GetInt(allowed.list, "rate", DefaultRate)
             channels == GetInt(allowed.list, "channels", DefaultChannels)
         IN  [res |-> TRUE,
              config |-> [frequency |-> rate,
                          playback |-> IF channels = 2 THEN "stereo" ELSE "mono"],
              caps |-> <<[rate |-> rate, channels |-> channels]>>]

(***************************************************************************)
(* Engine session controller                                               *)
(***************************************************************************)
\* what start_play_tune pushes on the source pad once the engine has loaded
\* the tune: update_tags, then the new-segment event (start 0, stop -1)
StartEvents == <<Event("tags"), Event("newsegment")>>

\* the error report carrying the buffer's capacity instead
LoadTuneError_Capacity(len) == Call("error.LoadTune", SIDTUNE_MAX_FILELEN)

\* could_not_load_tune: the error report carries tune_len
LoadTuneError(len) == Call("error.LoadTune", len)

\* start_play_tune; cfg_ok and load_ok are the engine's answers to config
\* and load.  new never returns NULL, so could_not_init_resid is not taken.
start_play_tune(allowed, cfg_ok, load_ok) ==
  LET status == getStatus(SubSeq(tune_buffer, 1, tune_len))
      neg == siddecfp_negotiate(config, srccaps, allowed)
      parsed == <<Call("SidTune.read", tune_len)>>
      built == parsed \o <<Call("ReSIDfpBuilder.new", 0),
                            Call("negotiate", IF allowed.null THEN 0 - 1
                                              ELSE Len(allowed.list))>>
      configured == built \o <<Call("engine.config", neg.config.frequency)>>
      loaded == configured \o
                  <<Call("tune.selectSong", tune_number), Call("engine.load", 0)>>
  IN
  /\ tune' = IF status THEN "valid" ELSE "invalid"
  /\ heap' = [heap EXCEPT !.tune = @ + 1, !.rs = IF status THEN @ + 1 ELSE @]
  /\ IF ~status
       THEN /\ last' = Last("sink_event.EOS", 0, 0,
                            parsed \o <<LoadTuneError(tune_len)>>)
            /\ UNCHANGED <<rs, config, srccaps, engine_tune, total_bytes, task,
                           srcpad_out>>
       ELSE
       /\ rs' = "created"
       /\ IF ~neg.res
            THEN /\ last' = Last("sink_event.EOS", 0, 0,
                                 built \o <<Call("error.Negotiation", 0)>>)
                 /\ UNCHANGED <<config, srccaps, engine_tune, total_bytes, task,
                                srcpad_out>>
            ELSE
            /\ config' = neg.config
            /\ srccaps' = neg.caps
            /\ IF ~cfg_ok
                 THEN /\ last' = Last("sink_event.EOS", 0, 0,
                                      configured \o <<Call("error.Config", 0)>>)
                      /\ UNCHANGED <<engine_tune, total_bytes, task, srcpad_out>>
                 ELSE
                 IF ~load_ok
                   THEN /\ last' = Last("sink_event.EOS", 0, 0,
                                        loaded \o <<Call("error.EngineLoad", tune_len)>>)
                        /\ UNCHANGED <<engine_tune, total_bytes, task, srcpad_out>>
                   ELSE /\ engine_tune' = "loaded"
                        /\ srcpad_out' = srcpad_out \o StartEvents
                        /\ total_bytes' = 0
                        /\ task' = "started"
                        /\ last' = Last("sink_event.EOS", 0, 1,
                                        loaded \o <<Call("push.tags", 0),
                                                    Call("push.newsegment", 0),
                                                    Call("engine.fastForward", 100),
                                                    Call("start_task", 0)>>)

\* gst_siddecfp_sink_event: end of input starts the session, anything else
\* is refused
gst_siddecfp_sink_event(type) ==
  /\ count.event < budget.event
  /\ count' = [count EXCEPT !.event = @ + 1]
  /\ IF type = "EOS"
       THEN \E allowed \in AllowedCaps(srccaps), cfg_ok \in BOOLEAN, load_ok \in BOOLEAN :
              start_play_tune(allowed, cfg_ok, load_ok)
       ELSE /\ last' = Last("sink_event." \o type, 0, 0, <<>>)
            /\ UNCHANGED <<tune, rs, config, srccaps, engine_tune, total_bytes, task,
                           srcpad_out, heap>>
  /\ UNCHANGED <<tune_buffer, tune_len, tune_number, blocksize, pc, loc, chunks,
                 overflowed, budget>>

(***************************************************************************)
(* Properties and queries                                                  *)
(***************************************************************************)
\* gst_siddecfp_set_property: two properties are stored, the others are
\* accepted and dropped; every valid property ends in engine->config
gst_siddecfp_set_property(prop, value) ==
  /\ count.set < budget.set
  /\ count' = [count EXCEPT !.set = @ + 1]
  /\ tune_number' = IF prop = "tune" THEN value ELSE tune_number
  /\ blocksize' = IF prop = "blocksize" THEN value ELSE blocksize
  /\ last' = Last("set_property." \o prop, value, 0,
                  IF prop = "invalid" THEN <<>>
                  ELSE <<Call("engine.config", config.frequency)>>)
  /\ UNCHANGED <<tune_buffer, tune_len, total_bytes, config, srccaps, tune, rs,
                 engine_tune, task, pc, loc, srcpad_out, chunks, overflowed, budget, heap>>

\* what a GValue holds when get_property leaves it as it was initialised
GValueZero == 0

\* gst_siddecfp_get_property: the two stored properties are read from their
\* fields; for the others the value is left as g_object_get_property
\* initialised it
gst_siddecfp_get_property(prop) ==
  /\ count.set < budget.set
  /\ count' = [count EXCEPT !.set = @ + 1]
  /\ last' = Last("get_property." \o prop, 0,
                  CASE prop = "tune" -> tune_number
                    [] prop = "blocksize" -> blocksize
                    [] OTHER -> GValueZero,
                  <<>>)
  /\ UNCHANGED <<tune_buffer, tune_len, tune_number, total_bytes, blocksize, config,
                 srccaps, tune, rs, engine_tune, task, pc, loc, srcpad_out, chunks,
                 overflowed, budget, heap>>

PropertyValues(prop) ==
  CASE prop = "tune" -> TuneNumbers
    [] prop = "blocksize" -> BlockSizes
    [] OTHER -> {1}

\* gst_siddecfp_src_query, position: total_bytes converted to the format asked
\* and written into the query; the element is left as it was
gst_siddecfp_src_query(format) ==
  /\ gst_siddecfp_src_convert(config, "BYTES", total_bytes, format).res \in BOOLEAN
  /\ UNCHANGED vars

(***************************************************************************)
(* Teardown                                                                *)
(***************************************************************************)
\* gst_siddecfp_finalize: stop the engine, unload the tune, free the
\* buffer, delete the backend siddecfp->rs points to (none when it is NULL)
\* and the engine; siddecfp->tune is not deleted
gst_siddecfp_finalize ==
  /\ ~heap.finalized
  /\ heap' = [heap EXCEPT !.finalized = TRUE,
                          !.tune_buffer = @ - 1,
                          !.rs = IF rs = "created" THEN @ - 1 ELSE @,
                          !.engine = @ - 1]
  /\ engine_tune' = "NULL"
  /\ last' = Last("finalize", 0, 0,
                  <<Call("engine.stop", 0), Call("engine.load", 0 - 1),
                    Call("g_free.tune_buffer", 0),
                    Call("delete.rs", IF rs = "created" THEN 1 ELSE 0),
                    Call("delete.engine", 0)>>)
  /\ UNCHANGED <<tune_buffer, tune_len, tune_number, total_bytes, blocksize, config,
                 srccaps, tune, rs, task, pc, loc, srcpad_out, chunks, overflowed,
                 count, budget>>

(***************************************************************************)
(* Production loop                                                         *)
(***************************************************************************)
\* the numbers of samples engine->play may report for a request
EnginePlay(req) == {req, req \div 2}

\* the pause label: an EOS event for UNEXPECTED, an error message and an EOS
\* event for NOT_LINKED and the fatal results, neither for the rest
PauseEvents(ret) ==
  IF ret = GST_FLOW_UNEXPECTED \/ ret < GST_FLOW_UNEXPECTED \/ ret = GST_FLOW_NOT_LINKED
    THEN <<Event("eos")>> ELSE <<>>

\* the pause label posting its error for the fatal results only
PauseCalls_QuietNotLinked(ret) ==
  (IF ret = GST_FLOW_UNEXPECTED \/ ret = GST_FLOW_NOT_LINKED THEN <<Call("push.eos", 0)>>
   ELSE IF ret < GST_FLOW_UNEXPECTED
     THEN <<Call("error.STREAM_FAILED", ret), Call("push.eos", 0)>>
     ELSE <<>>)
  \o <<Call("pause_task", 0)>>

PauseCalls(ret) ==
  (IF ret = GST_FLOW_UNEXPECTED THEN <<Call("push.eos", 0)>>
   ELSE IF ret < GST_FLOW_UNEXPECTED \/ ret = GST_FLOW_NOT_LINKED
     THEN <<Call("error.STREAM_FAILED", ret), Call("push.eos", 0)>>
     ELSE <<>>)
  \o <<Call("pause_task", 0)>>

\* the short-read test after a successful push (line 356)
ShortRead(played, size) == played < size

\* lines 323-325: acquire the output buffer
play_loop_alloc(ret) ==
  /\ task = "started"
  /\ pc = "alloc"
  /\ count.iter < budget.iter
  /\ count' = [count EXCEPT !.iter = @ + 1]
  /\ IF ret # GST_FLOW_OK
       THEN /\ srcpad_out' = srcpad_out \o PauseEvents(ret)
            /\ task' = "paused"
            /\ last' = Last("play_loop", 0, ret,
                            <<Call("alloc_buffer", blocksize)>> \o PauseCalls(ret))
            /\ UNCHANGED <<pc, loc>>
       ELSE /\ loc' = [NoLocals EXCEPT !.out_size = blocksize]
            /\ pc' = "play"
            /\ last' = Last("play_loop", 0, ret, <<Call("alloc_buffer", blocksize)>>)
            /\ UNCHANGED <<srcpad_out, task>>
  /\ UNCHANGED <<tune_buffer, tune_len, tune_number, total_bytes, blocksize, config,
                 srccaps, tune, rs, engine_tune, chunks, overflowed, budget, heap>>

\* lines 327-329: render and copy into the output buffer
play_loop_play(n) ==
  /\ pc = "play"
  /\ loc' = [loc EXCEPT !.requested = blocksize \div 2, !.played = n * 2]
  /\ pc' = "stamp"
  /\ last' = Last("play_loop", 0, 0, <<Call("engine.play", blocksize \div 2)>>)
  /\ UNCHANGED <<tune_buffer, tune_len, tune_number, total_bytes, blocksize, config,
                 srccaps, tune, rs, engine_tune, task, srcpad_out, chunks, overflowed,
                 count, budget, heap>>

\* lines 331-339: starting offset and timestamp from the position counter
play_loop_stamp ==
  /\ pc = "stamp"
  /\ loc' = [loc EXCEPT
               !.offset = gst_siddecfp_src_convert(config, "BYTES", total_bytes,
                                                   "DEFAULT").value,
               !.time = gst_siddecfp_src_convert(config, "BYTES", total_bytes,
                                                 "TIME").value]
  /\ pc' = "advance"
  /\ last' = Last("play_loop", 0, 0, <<>>)
  /\ UNCHANGED <<tune_buffer, tune_len, tune_number, total_bytes, blocksize, config,
                 srccaps, tune, rs, engine_tune, task, srcpad_out, chunks, overflowed,
                 count, budget, heap>>

\* lines 341-351: advance the position counter, ending offset and duration
play_loop_advance ==
  /\ pc = "advance"
  /\ total_bytes' = total_bytes + loc.played
  /\ loc' = [loc EXCEPT
               !.offset_end = gst_siddecfp_src_convert(config, "BYTES",
                                total_bytes + loc.played, "DEFAULT").value,
               !.duration = gst_siddecfp_src_convert(config, "BYTES",
                              total_bytes + loc.played, "TIME").value - loc.time]
  /\ pc' = "push"
  /\ last' = Last("play_loop", 0, 0, <<>>)
  /\ UNCHANGED <<tune_buffer, tune_len, tune_number, blocksize, config, srccaps, tune,
                 rs, engine_tune, task, srcpad_out, chunks, overflowed, count, budget, heap>>

\* the buffer play_loop pushes: the acquired size, the stamps computed
OutBuffer(l, ret) ==
  [type |-> "buffer", timestamp |-> l.time, duration |-> l.duration,
   offset |-> l.offset, offset_end |-> l.offset_end, size |-> l.out_size, ret |-> ret]

\* lines 353-383: push, then end of stream on a short read or a failure
play_loop_push(ret) ==
  /\ pc = "push"
  /\ pc' = "alloc"
  /\ loc' = NoLocals
  /\ IF ret # GST_FLOW_OK
       THEN /\ srcpad_out' = Append(srcpad_out, OutBuffer(loc, ret)) \o PauseEvents(ret)
            /\ task' = "paused"
            /\ last' = Last("play_loop", loc.played, ret,
                            <<Call("push.buffer", loc.out_size)>> \o PauseCalls(ret))
       ELSE IF ShortRead(loc.played, blocksize)
         THEN /\ srcpad_out' = Append(srcpad_out, OutBuffer(loc, ret)) \o <<Event("eos")>>
              /\ task' = "paused"
              /\ last' = Last("play_loop", loc.played, ret,
                              <<Call("push.buffer", loc.out_size), Call("push.eos", 0),
                                Call("pause_task", 0)>>)
         ELSE /\ srcpad_out' = Append(srcpad_out, OutBuffer(loc, ret))
              /\ last' = Last("play_loop", loc.played, ret,
                              <<Call("push.buffer", loc.out_size)>>)
              /\ UNCHANGED task
  /\ UNCHANGED <<tune_buffer, tune_len, tune_number, total_bytes, blocksize, config,
                 srccaps, tune, rs, engine_tune, chunks, overflowed, count, budget, heap>>

(***************************************************************************)
(* Specification                                                           *)
(***************************************************************************)
Properties == {"tune", "blocksize", "filter", "invalid"}

\* the element exists: no handler runs once it is finalized
Alive == ~heap.finalized

Next ==
  \/ Alive /\ \E data \in Chunks(budget.chunk) : gst_siddecfp_chain(data)
  \/ Alive /\ \E type \in {"EOS", "NEWSEGMENT"} : gst_siddecfp_sink_event(type)
  \/ Alive /\ \E prop \in Properties : \E value \in PropertyValues(prop) :
                gst_siddecfp_set_property(prop, value)
  \/ Alive /\ \E prop \in Properties : gst_siddecfp_get_property(prop)
  \/ Alive /\ \E format \in Formats : gst_siddecfp_src_query(format)
  \/ Alive /\ \E ret \in FlowReturns : play_loop_alloc(ret)
  \/ Alive /\ \E n \in EnginePlay(blocksize \div 2) : play_loop_play(n)
  \/ Alive /\ play_loop_stamp
  \/ Alive /\ play_loop_advance
  \/ Alive /\ \E ret \in FlowReturns : play_loop_push(ret)
  \/ gst_siddecfp_finalize

Spec == Init /\ [][Next]_vars

(***************************************************************************)
(* The unit conversion on its own                                          *)
(***************************************************************************)
\* the formats the conversion supports
Units == {"BYTES", "DEFAULT", "TIME"}

\* the rates and channel counts the source pad's template admits
Rates == {8000, 11025, 22050, 44100, 48000}
Playbacks == {"mono", "stereo"}

\* the values converted: every small one, and per unit some that are and
\* some that are not whole in the other units (441 frames are 10 ms at
\* 44100 Hz, 62500 ns are one byte at 8000 Hz mono)
MaxValue == 12
ConvertValues(unit) ==
  (0 .. MaxValue) \cup
  (IF unit = "TIME"
     THEN {20833, 62500, 125000, 999999, 1000000, 10000000, 999999999, 1000000000}
     ELSE {441, 1763, 1764, 8191, 8192})

\* any negotiated format; the rest of the element as constructed
ConvertInit ==
  /\ tune_buffer = <<>>
  /\ tune_len = 0
  /\ tune_number = 0
  /\ total_bytes = 0
  /\ blocksize = DEFAULT_BLOCKSIZE
  /\ config \in [frequency : Rates, playback : Playbacks]
  /\ srccaps = <<[rate |-> config.frequency,
                  channels |-> IF config.playback = "stereo" THEN 2 ELSE 1]>>
  /\ tune = "NULL"
  /\ rs = "NULL"
  /\ engine_tune = "NULL"
  /\ task = "none"
  /\ pc = "alloc"
  /\ loc = NoLocals
  /\ srcpad_out = <<>>
  /\ last = Last("init", 0, 0, <<>>)
  /\ chunks = <<>>
  /\ overflowed = FALSE
  /\ count = [chain |-> 0, event |-> 0, set |-> 0, iter |-> 0]
  /\ budget = [chain |-> 0, chunk |-> 0, event |-> 0, set |-> 0, iter |-> 0]
  /\ heap = NewHeap

\* gst_siddecfp_src_convert called on a value in format a for format b; the
\* calls record the value given and the value returned, each under its format
convert_there(a, b, x) ==
  LET there == gst_siddecfp_src_convert(config, a, x, b)
  IN  /\ last' = Last("convert", x, IF there.res THEN 1 ELSE 0,
                      <<Call(a, x), Call(b, there.value)>>)
      /\ UNCHANGED <<tune_buffer, tune_len, tune_number, total_bytes, blocksize, config,
                     srccaps, tune, rs, engine_tune, task, pc, loc, srcpad_out, chunks,
                     overflowed, count, budget, heap>>

\* the value the last call returned, converted back to the first format
convert_back ==
  /\ last.op = "convert" /\ last.ret = 1
  /\ LET a == last.calls[1].call
         b == last.calls[2].call
         back == gst_siddecfp_src_convert(config, b, last.calls[2].arg, a)
     IN  last' = Last("convert_back", last.arg, IF back.res THEN 1 ELSE 0,
                      last.calls \o <<Call(a, back.value)>>)
  /\ UNCHANGED <<tune_buffer, tune_len, tune_number, total_bytes, blocksize, config,
                 srccaps, tune, rs, engine_tune, task, pc, loc, srcpad_out, chunks,
                 overflowed, count, budget, heap>>

ConvertNext ==
  \/ \E a \in Units, b \in Units : \E x \in ConvertValues(a) : convert_there(a, b, x)
  \/ convert_back

ConvertSpec == ConvertInit /\ [][ConvertNext]_vars

(***************************************************************************)
(* Helpers of the properties                                               *)
(***************************************************************************)
RECURSIVE Concat(_)
Concat(ss) == IF ss = <<>> THEN <<>> ELSE Head(ss) \o Concat(Tail(ss))

RECURSIVE SumLen(_)
SumLen(ss) == IF ss = <<>> THEN 0 ELSE Len(Head(ss)) + SumLen(Tail(ss))

HasCall(calls, name) == \E i \in 1 .. Len(calls) : calls[i].call = name
CallsNamed(calls, name) == {i \in 1 .. Len(calls) : calls[i].call = name}
OutOfType(type) == {i \in 1 .. Len(srcpad_out) : srcpad_out[i].type = type}

\* the step is a call of the handler
ChainStep == count'.chain = count.chain + 1
EventStep == count'.event = count.event + 1
EosStep == EventStep /\ last'.op = "sink_event.EOS"

(***************************************************************************)
(* Input accumulator: C1 - C4                                              *)
(***************************************************************************)
\* C1: the accumulated program has the length of the accepted chunks' sizes
\* added up and is their concatenation in call order.
C1_Concatenation ==
  /\ tune_len = SumLen(chunks)
  /\ Len(tune_buffer) >= tune_len
  /\ SubSeq(tune_buffer, 1, tune_len) = Concat(chunks)

\* three chunks, the first two non-empty and different, fill the buffer
\* to capacity without any refusal
C1_Witness ==
  /\ ~overflowed
  /\ Len(chunks) >= 2
  /\ chunks[1] # <<>> /\ chunks[2] # <<>> /\ chunks[1] # chunks[2]
  /\ tune_len = SIDTUNE_MAX_FILELEN

\* C2: a chain call whose chunk does not fit returns the error and leaves
\* the accumulated length and content, the position counter and the session
\* as they were.
C2_OverflowLeavesState ==
  [][(ChainStep /\ tune_len + last'.arg > SIDTUNE_MAX_FILELEN) =>
       /\ last'.ret = GST_FLOW_ERROR
       /\ HasCall(last'.calls, "error.STREAM_DECODE")
       /\ UNCHANGED <<tune_len, tune_buffer, total_bytes, tune, rs, engine_tune, task,
                      config, srccaps, tune_number, blocksize, pc, loc, srcpad_out>>]_vars

\* a chunk was refused while a program was accumulated and production ran
C2_Witness ==
  /\ last.op = "chain" /\ last.ret = GST_FLOW_ERROR
  /\ tune_len > 0
  /\ tune_len + last.arg > SIDTUNE_MAX_FILELEN
  /\ task = "started"

\* C3: the accumulated length stays within 0 and the capacity.
C3_LengthWithinCapacity == 0 <= tune_len /\ tune_len <= SIDTUNE_MAX_FILELEN

\* the buffer is full, a chunk has been refused, and production has iterated
C3_Witness ==
  /\ tune_len = SIDTUNE_MAX_FILELEN
  /\ overflowed
  /\ count.iter >= 1

\* C4: once a chunk has been refused, no later end-of-input signal loads
\* the partial program into the engine or starts the production task.
C4_NoLoadAfterOverflow ==
  [][(overflowed /\ EosStep) =>
       /\ ~HasCall(last'.calls, "engine.load")
       /\ ~HasCall(last'.calls, "start_task")]_vars

(***************************************************************************)
(* Session start: C5, C6, C10                                              *)
(***************************************************************************)
\* the number of structures the negotiation of this step was offered
\* (-1: no caps at all), or the empty set when the step did not negotiate
Offered(calls) == {calls[i].arg : i \in CallsNamed(calls, "negotiate")}

\* C5: when downstream offers no format at end of input, the session fails
\* with the negotiation error and the engine is neither configured nor
\* loaded, nor is the production task started.
C5_NoFormatFails ==
  [][(EosStep /\ \E n \in Offered(last'.calls) : n <= 0) =>
       /\ last'.ret = 0
       /\ HasCall(last'.calls, "error.Negotiation")
       /\ ~HasCall(last'.calls, "engine.config")
       /\ ~HasCall(last'.calls, "engine.load")
       /\ ~HasCall(last'.calls, "start_task")]_vars

\* C6: when the accumulated program fails its validity check at end of
\* input, the handler parses, reports the load error with the accumulated
\* length, and does nothing else: no backend, no negotiation, no engine
\* configuration or load, no event on the source pad, no task.
C6_InvalidTuneFails ==
  [][(EosStep /\ ~getStatus(SubSeq(tune_buffer, 1, tune_len))) =>
       /\ last'.ret = 0
       /\ last'.calls = <<Call("SidTune.read", tune_len), Call("error.LoadTune", tune_len)>>
       /\ UNCHANGED <<rs, config, srccaps, engine_tune, task, srcpad_out, total_bytes,
                      tune_len, tune_buffer>>]_vars

\* an invalid, non-empty program met the end of input
C6_Witness ==
  /\ last.op = "sink_event.EOS"
  /\ tune_len >= 2
  /\ ~getStatus(SubSeq(tune_buffer, 1, tune_len))
  /\ HasCall(last.calls, "error.LoadTune")
  /\ task = "none"

\* C10: once negotiation has succeeded, the output format (sample rate and
\* channel count) never changes.
C10_FormatFixed == [][srccaps # <<>> => config' = config]_vars

\* The other half of C10, which fails as well: once negotiation has
\* succeeded no later step negotiates again.
NoRenegotiation ==
  [][srccaps # <<>> => ~(EosStep /\ HasCall(last'.calls, "negotiate"))]_vars

\* The part of C5 the code keeps: without a peer (no caps at all) the
\* session fails before the engine is configured.
NoPeer_NegotiationFails ==
  [][(EosStep /\ (0 - 1) \in Offered(last'.calls)) =>
       /\ last'.ret = 0
       /\ HasCall(last'.calls, "error.Negotiation")
       /\ ~HasCall(last'.calls, "engine.config")
       /\ ~HasCall(last'.calls, "start_task")]_vars

(***************************************************************************)
(* Output of the production loop: C7 - C9                                  *)
(***************************************************************************)
IsBuffer(e) == e.type = "buffer"
OutBuffers == SelectSeq(srcpad_out, IsBuffer)

\* C7: the first buffer starts at 0, starting timestamps never decrease, and
\* each buffer's duration is the distance to its successor's timestamp.
C7_Timestamps ==
  LET b == OutBuffers
  IN  /\ Len(b) >= 1 => b[1].timestamp = 0
      /\ \A i \in 1 .. Len(b) - 1 :
           /\ b[i + 1].timestamp >= b[i].timestamp
           /\ b[i].duration = b[i + 1].timestamp - b[i].timestamp

\* C8: when the production loop has stopped, exactly one end-of-stream
\* event has been pushed.
C8_ExactlyOneEos == task = "paused" => Cardinality(OutOfType("eos")) = 1

\* C9: every buffer comes after exactly one tag event and exactly one
\* new-segment event, of which there is one each in the element's lifetime,
\* and nothing follows the end-of-stream event.
C9_OutputOrder ==
  /\ Cardinality(OutOfType("tags")) <= 1
  /\ Cardinality(OutOfType("newsegment")) <= 1
  /\ \A i \in OutOfType("buffer") :
       /\ Cardinality({j \in OutOfType("tags") : j < i}) = 1
       /\ Cardinality({j \in OutOfType("newsegment") : j < i}) = 1
  /\ \A i \in OutOfType("eos") : \A j \in 1 .. Len(srcpad_out) :
       j > i => srcpad_out[j].type = "eos"

\* What holds of the same output while a single sink event is delivered:
\* the properties of C7 and C9 fail only when start_play_tune runs again.
SingleEvent_Timestamps == budget.event = 1 => C7_Timestamps
SingleEvent_OutputOrder == budget.event = 1 => C9_OutputOrder

(***************************************************************************)
(* Unit conversion: C11                                                    *)
(***************************************************************************)
\* x units of format a are a whole number of units of format b, by the
\* exact ratios: a frame is bytes_per_sample bytes, a second is frequency
\* frames
WholeIn(cfg, a, x, b) ==
  LET bps == bytes_per_sample(cfg)
  IN  CASE a = b -> TRUE
        [] a = "BYTES" /\ b = "DEFAULT" -> x % bps = 0
        [] a = "DEFAULT" /\ b = "BYTES" -> TRUE
        [] a = "BYTES" /\ b = "TIME" -> MulDivQR(x, GST_SECOND, bps * cfg.frequency)[2] = 0
        [] a = "DEFAULT" /\ b = "TIME" -> MulDivQR(x, GST_SECOND, cfg.frequency)[2] = 0
        [] a = "TIME" /\ b = "BYTES" -> MulDivQR(x, bps * cfg.frequency, GST_SECOND)[2] = 0
        [] a = "TIME" /\ b = "DEFAULT" -> MulDivQR(x, cfg.frequency, GST_SECOND)[2] = 0

C11_LossyWitness ==
  /\ last.op = "convert_back"
  /\ last.calls[3].arg < last.calls[1].arg

(***************************************************************************)
(* The stamps of one iteration: C12                                        *)
(***************************************************************************)
\* the step is play_loop advancing the position counter (lines 341-351)
AdvanceStep == pc = "advance" /\ pc' = "push"

\* the scenario of C12: blocks of 8192 bytes, stereo at 48000 Hz, and the
\* engine has rendered the whole block
FullStereoBlock ==
  /\ blocksize = DEFAULT_BLOCKSIZE
  /\ config = [frequency |-> 48000, playback |-> "stereo"]
  /\ loc.out_size = DEFAULT_BLOCKSIZE
  /\ loc.played = DEFAULT_BLOCKSIZE

\* 2048 * GST_SECOND / 48000 in whole nanoseconds
BlockDuration == gst_util_uint64_scale_int(2048, GST_SECOND, 48000)

\* the starting offset and timestamp of the iteration are those of the
\* position counter as it is now
StampsCurrent ==
  /\ loc.offset = gst_siddecfp_src_convert(config, "BYTES", total_bytes, "DEFAULT").value
  /\ loc.time = gst_siddecfp_src_convert(config, "BYTES", total_bytes, "TIME").value

SetStep(prop) == count'.set = count.set + 1 /\ last'.op = "set_property." \o prop
GetStep(prop) == count'.set = count.set + 1 /\ last'.op = "get_property." \o prop

\* C13: a property read right after it was set gives the value it was
\* set to, for the sub-tune, the block size and the options the engine is
\* not wired to; and setting one of the stored properties leaves the other
\* as it was.
C13_ReadBack ==
  [][/\ \A prop \in {"tune", "blocksize", "filter"} :
          (last.op = "set_property." \o prop /\ GetStep(prop)) => last'.ret = last.arg
     /\ SetStep("tune") => blocksize' = blocksize
     /\ SetStep("blocksize") => tune_number' = tune_number
     /\ SetStep("filter") => blocksize' = blocksize /\ tune_number' = tune_number]_vars

\* The part of C13 the code keeps: the sub-tune and the block size are
\* stored when set, read from where they are stored, and no set of another
\* property changes them.
StoredPropertiesReadBack ==
  [][/\ SetStep("tune") => tune_number' = last'.arg /\ blocksize' = blocksize
     /\ SetStep("blocksize") => blocksize' = last'.arg /\ tune_number' = tune_number
     /\ SetStep("filter") => blocksize' = blocksize /\ tune_number' = tune_number
     /\ GetStep("tune") => last'.ret = tune_number
     /\ GetStep("blocksize") => last'.ret = blocksize]_vars

(***************************************************************************)
(* The order of the session's steps: C14                                   *)
(***************************************************************************)
\* what start_play_tune calls when every step succeeds, in order
SessionSteps ==
  <<"SidTune.read", "ReSIDfpBuilder.new", "negotiate", "engine.config",
    "tune.selectSong", "engine.load", "push.tags", "push.newsegment",
    "engine.fastForward", "start_task">>

\* the error each step reports when it fails, by the number of steps
\* attempted up to and including it
StepError ==
  [n \in {1, 3, 4, 6} |->
     CASE n = 1 -> "error.LoadTune"
       [] n = 3 -> "error.Negotiation"
       [] n = 4 -> "error.Config"
       [] n = 6 -> "error.EngineLoad"]

IsError(c) == c.call \in {StepError[n] : n \in DOMAIN StepError}
IsStep(c) == ~IsError(c)

\* C14: an end-of-input handler attempts the steps parse, build and
\* negotiate, configure, select and load, start in that order; it stops at
\* the first step that fails, reporting exactly that step's error as the
\* last thing it does; a program that fails its check stops it after the
\* parse and missing caps after the negotiation; and the task is started
\* only by a handler in which no step failed.
C14_StepsInOrder ==
  [][EosStep =>
       LET calls == last'.calls
           steps == SelectSeq(calls, IsStep)
           errors == SelectSeq(calls, IsError)
           n == Len(steps)
       IN  /\ n >= 1 /\ n <= Len(SessionSteps)
           /\ \A i \in 1 .. n : steps[i].call = SessionSteps[i]
           /\ Len(errors) <= 1
           /\ Len(errors) = 1 <=>  n < Len(SessionSteps)
           /\ Len(errors) = 1 =>
                /\ n \in DOMAIN StepError
                /\ calls[Len(calls)].call = StepError[n]
           /\ ~getStatus(SubSeq(tune_buffer, 1, tune_len)) <=> n = 1
           /\ (n >= 3 /\ steps[3].arg = 0 - 1) => n = 3
           /\ last'.ret = 1 <=> n = Len(SessionSteps)
           /\ n < Len(SessionSteps) => UNCHANGED <<task, engine_tune, total_bytes, srcpad_out>>
           /\ n = Len(SessionSteps) => task' = "started"]_vars

\* the handler stopped at the engine's configuration, after a successful
\* parse and negotiation, and started nothing
C14_Witness ==
  /\ last.op = "sink_event.EOS"
  /\ HasCall(last.calls, "error.Config")
  /\ HasCall(last.calls, "negotiate")
  /\ ~HasCall(last.calls, "engine.load")
  /\ task = "none"
  /\ srccaps # <<>>

(***************************************************************************)
(* The end of production: C15                                              *)
(***************************************************************************)
\* the step is play_loop pushing its buffer (lines 353-359), with success
PushStep == pc = "push" /\ pc' = "alloc"
PushOkStep == PushStep /\ last'.ret = GST_FLOW_OK

\* the engine rendered fewer samples than it was asked for
RenderedShort == loc.played \div 2 < loc.requested

\* the block size was the same all through the iteration
SteadyBlock == loc.out_size = blocksize /\ loc.requested = blocksize \div 2

\* C15: an iteration whose push succeeds ends the stream and pauses the
\* task exactly when the engine rendered fewer samples than it was asked
\* for; when it rendered them all, nothing is pushed after the buffer and
\* the task goes on.  (Iterations during which the block size is changed
\* are left to C21.)
C15_EosIffShort ==
  [][(PushOkStep /\ SteadyBlock) =>
       /\ (HasCall(last'.calls, "push.eos") /\ task' = "paused") <=> RenderedShort
       /\ ~RenderedShort =>
            /\ ~HasCall(last'.calls, "push.eos")
            /\ ~HasCall(last'.calls, "pause_task")
            /\ task' = task]_vars

\* The part of C15 the code keeps: the same for every even block size.
EvenBlock_EosIffShort ==
  [][(PushOkStep /\ SteadyBlock /\ blocksize % 2 = 0) =>
       /\ (HasCall(last'.calls, "push.eos") /\ task' = "paused") <=> RenderedShort
       /\ ~RenderedShort =>
            /\ ~HasCall(last'.calls, "pause_task")
            /\ task' = task]_vars

(***************************************************************************)
(* Failures in the loop: C16, C17                                          *)
(***************************************************************************)
\* the step is play_loop acquiring its buffer (lines 323-325)
AllocStep == count'.iter = count.iter + 1

\* the step is an acquisition or a push that did not return GST_FLOW_OK
LoopFailStep == (AllocStep \/ PushStep) /\ last'.ret # GST_FLOW_OK

\* C16: an acquisition or a push that fails pauses the task in the same
\* iteration, which renders and pushes nothing more, and an end-of-stream
\* event is pushed.
C16_FailurePausesWithEos ==
  [][LoopFailStep =>
       /\ task' = "paused"
       /\ pc' = "alloc"
       /\ HasCall(last'.calls, "pause_task")
       /\ HasCall(last'.calls, "push.eos")
       /\ srcpad_out'[Len(srcpad_out')].type = "eos"]_vars

\* The part of C16 the code keeps: every failure pauses the task in the
\* same iteration, and every failure but GST_FLOW_WRONG_STATE pushes the
\* end-of-stream event.
FailurePauses ==
  [][LoopFailStep =>
       /\ task' = "paused"
       /\ pc' = "alloc"
       /\ HasCall(last'.calls, "pause_task")
       /\ last'.ret # GST_FLOW_WRONG_STATE =>
            /\ HasCall(last'.calls, "push.eos")
            /\ srcpad_out'[Len(srcpad_out')].type = "eos"]_vars

\* C17, as stated: a failure with GST_FLOW_NOT_LINKED pauses the task and
\* pushes the end-of-stream event without posting an error; an error is
\* posted only for the other fatal results.
C17_NotLinkedQuiet ==
  [][LoopFailStep =>
       /\ last'.ret = GST_FLOW_NOT_LINKED =>
            /\ task' = "paused"
            /\ HasCall(last'.calls, "push.eos")
            /\ ~HasCall(last'.calls, "error.STREAM_FAILED")
       /\ HasCall(last'.calls, "error.STREAM_FAILED") => last'.ret < GST_FLOW_UNEXPECTED]_vars

\* C17, amended: a failure with GST_FLOW_NOT_LINKED pauses the task, posts
\* one stream error naming the result and then pushes the end-of-stream
\* event, as the results below GST_FLOW_UNEXPECTED do; no error is posted
\* for GST_FLOW_UNEXPECTED and GST_FLOW_WRONG_STATE.
C17_NotLinkedPostsError ==
  [][LoopFailStep =>
       LET calls == last'.calls
           errors == CallsNamed(calls, "error.STREAM_FAILED")
       IN  /\ last'.ret = GST_FLOW_NOT_LINKED =>
                /\ task' = "paused"
                /\ Cardinality(errors) = 1
                /\ \A i \in errors :
                     /\ calls[i].arg = GST_FLOW_NOT_LINKED
                     /\ i < Len(calls) /\ calls[i + 1].call = "push.eos"
                /\ srcpad_out'[Len(srcpad_out')].type = "eos"
           /\ errors # {} <=>
                (last'.ret = GST_FLOW_NOT_LINKED \/ last'.ret < GST_FLOW_UNEXPECTED)]_vars

\* a push was answered with GST_FLOW_NOT_LINKED: the buffer went out, the
\* error was posted, the stream ended and the task is paused
C17_Witness ==
  /\ last.op = "play_loop"
  /\ last.ret = GST_FLOW_NOT_LINKED
  /\ HasCall(last.calls, "push.buffer")
  /\ HasCall(last.calls, "error.STREAM_FAILED")
  /\ task = "paused"
  /\ Len(srcpad_out) >= 2
  /\ srcpad_out[Len(srcpad_out)].type = "eos"
  /\ srcpad_out[Len(srcpad_out) - 1].type = "buffer"

(***************************************************************************)
(* The position counter: C18                                               *)
(***************************************************************************)
\* production has begun: a session has pushed its new-segment event
ProductionBegun == OutOfType("newsegment") # {}

\* C18: once production has begun the position counter never decreases,
\* whatever events arrive; it changes only when an iteration advances it,
\* by the number of bytes that iteration rendered.
C18_CounterMonotonic ==
  [][ProductionBegun =>
       /\ total_bytes' >= total_bytes
       /\ total_bytes' # total_bytes =>
            AdvanceStep /\ total_bytes' = total_bytes + loc.played]_vars

\* The part of C18 the code keeps: the position counter is changed only
\* by an iteration, which adds what it rendered, and by an end-of-input
\* handler that starts the task, which sets it to zero; chunks, property
\* accesses and queries leave it alone.
CounterWriters ==
  [][/\ AdvanceStep => total_bytes' = total_bytes + loc.played
     /\ total_bytes' # total_bytes =>
          \/ AdvanceStep
          \/ EosStep /\ HasCall(last'.calls, "start_task") /\ total_bytes' = 0]_vars

(***************************************************************************)
(* Accumulation and production: C19                                        *)
(***************************************************************************)
\* C19: once the end of input has loaded the program and started the
\* production task, the accumulated program's length and content no longer
\* change.
C19_NoAppendAfterLoad ==
  [][(engine_tune = "loaded" /\ task = "started") =>
       tune_len' = tune_len /\ tune_buffer' = tune_buffer]_vars

\* The part of C19 the code keeps: the production loop never touches the
\* accumulated program, and chain touches nothing but the program.
DisjointFields ==
  [][/\ (AllocStep \/ pc' # pc) => UNCHANGED <<tune_buffer, tune_len>>
     /\ ChainStep => UNCHANGED <<total_bytes, config, blocksize, srccaps, task, pc, loc,
                                 srcpad_out, tune, engine_tune>>]_vars

(***************************************************************************)
(* Teardown: C20                                                           *)
(***************************************************************************)
\* where a call stands in the last handler's calls (0: not called)
CallIndex(name) ==
  IF HasCall(last.calls, name)
    THEN CHOOSE i \in CallsNamed(last.calls, name) : TRUE ELSE 0

\* finalize stops the engine, then unloads the tune, then frees
StopUnloadFree ==
  /\ last.op = "finalize"
  /\ CallIndex("engine.stop") = 1
  /\ CallIndex("engine.load") = 2
  /\ \A i \in 3 .. Len(last.calls) :
       last.calls[i].call \in {"g_free.tune_buffer", "delete.rs", "delete.engine"}
  /\ \A name \in {"g_free.tune_buffer", "delete.rs", "delete.engine"} :
       Cardinality(CallsNamed(last.calls, name)) = 1

\* C20: whatever the session's state at teardown, finalize stops the
\* engine, then unloads the tune, then frees; and afterwards no engine, no
\* tune and no backend that was created is left unreleased, and none has
\* been released twice.
C20_TeardownReleasesAll ==
  heap.finalized =>
    /\ StopUnloadFree
    /\ heap.engine = 0
    /\ heap.tune = 0
    /\ heap.rs = 0

\* The part of C20 the code keeps: the order of teardown, the release of
\* the engine and the buffer exactly once, and of the one backend that a
\* single end-of-input created.
TeardownOrder ==
  heap.finalized =>
    /\ StopUnloadFree
    /\ heap.engine = 0
    /\ heap.tune_buffer = 0
    /\ heap.rs >= 0
    /\ budget.event = 1 => heap.rs = 0
    /\ engine_tune = "NULL"

(***************************************************************************)
(* The block size within one iteration: C21                                *)
(***************************************************************************)
\* the step is play_loop rendering into its local buffer and copying what
\* was rendered into the acquired buffer (lines 327-329)
PlayStep == pc = "play" /\ pc' = "stamp"

\* C21: whatever is done to the block size while an iteration is under
\* way, the bytes copied into the acquired buffer are no more than the
\* size it was acquired with, and the short-read test comes out as it
\* would against the block size the iteration began with.
C21_ConsistentBlockSize ==
  [][/\ PlayStep => loc'.played <= loc'.out_size
     /\ PushOkStep =>
          (ShortRead(loc.played, blocksize) <=> ShortRead(loc.played, loc.out_size))]_vars

\* The part of C21 the code keeps: an iteration during which the block
\* size is not changed copies no more than it acquired.
SteadyBlock_CopyFits ==
  [][(PlayStep /\ loc.out_size = blocksize) => loc'.played <= loc'.out_size]_vars

(***************************************************************************)
(* The size of the buffers pushed: C22                                     *)
(***************************************************************************)
\* the buffer the push step puts on the source pad
Pushed == srcpad_out'[Len(srcpad_out) + 1]

\* C22: every buffer pushed has the size of what was rendered into it,
\* which is what the position counter advanced by for it.
C22_SizeIsRendered ==
  [][PushStep => Pushed.type = "buffer" /\ Pushed.size = loc.played]_vars

\* The part of C22 the code keeps: a buffer of an even block size that the
\* engine filled completely, the block size being left alone meanwhile,
\* has the size of what was rendered.
FullBlock_SizeIsRendered ==
  [][(PushStep /\ SteadyBlock /\ blocksize % 2 = 0 /\ ~RenderedShort) =>
       Pushed.type = "buffer" /\ Pushed.size = loc.played]_vars

(***************************************************************************)
(* The engine's configuration call: C23                                    *)
(***************************************************************************)
\* C23: the engine is configured only by an end-of-input handler, after
\* its negotiation; a property set configures nothing, neither while the
\* element has no backend nor while the production task runs.
C23_ConfigOnlyAtStart ==
  [][HasCall(last'.calls, "engine.config") =>
       /\ EosStep
       /\ \A i \in CallsNamed(last'.calls, "engine.config") :
            i > 1 /\ last'.calls[i - 1].call = "negotiate"]_vars

\* The part of C23 the code keeps: within an end-of-input handler the
\* engine is configured once, right after the negotiation; every other
\* call comes from a property set.
ConfigCallers ==
  [][HasCall(last'.calls, "engine.config") =>
       \/ /\ EosStep
          /\ Cardinality(CallsNamed(last'.calls, "engine.config")) = 1
          /\ \A i \in CallsNamed(last'.calls, "engine.config") :
               i > 1 /\ last'.calls[i - 1].call = "negotiate"
       \/ \E prop \in Properties \ {"invalid"} : SetStep(prop)]_vars

\* a property set configures the engine while the task runs
SetConfiguresWhileRunning ==
  /\ last.op = "set_property.blocksize"
  /\ HasCall(last.calls, "engine.config")
  /\ task = "started"
  /\ pc # "alloc"

=============================================================================
